---- MODULE Spec2Model ----
(***************************************************************************)
(* Model of the fluxy terminal session (type newModel): the bubbletea      *)
(* Update/View loop, the image-generation jobs it dispatches and the       *)
(* completion messages they deliver.                                       *)
(*                                                                         *)
(* Strings are sequences of one-character strings.  A Go byte slice is a   *)
(* record [nil, bytes] so that the nil slice and the empty non-nil slice   *)
(* []byte{} stay distinct, as they are for the `!= nil` tests of the code. *)
(***************************************************************************)
EXTENDS Integers, Sequences, FiniteSets, TLC

\* ---------------------------------------------------------------- bounds
MaxJobs == 3          \* generateImage commands started in one run
MaxCells == 24        \* native image width and height, in cells (FitSpec)
MaxPolls == 2         \* status polls of one generateImage run (JobSpec)

\* window sizes FitSpec scales into
FitWidths  == {1, 4, 5, 12, 20, 80}
FitHeights == {1, 10, 11, 12, 20, 26}

\* window sizes a resize can report
Sizes   == {<<50, 24>>, <<30, 10>>}
\* click positions: left of, inside (both halves) and right of the button
\* container; above and inside the controls panel
XCoords == {4, 24, 25, 46}
YCoords == {1, 16}
\* values the text input is allowed to reach
Texts   == {<<>>, <<"h">>, <<"a">>, <<"h", "a">>}
ConfigPrompts == {<<>>, <<"a">>}
TypedKeys == {"h", "l", "j", "k", "a"}
Keys == {"ctrl+c", "q", "enter", "left", "right", "tab", "down", "up"} \cup TypedKeys
Buttons == {"left", "right"}

\* ------------------------------------------------------ program constants
controlsPanelHeight == 8
containerWidth == 40
CharLimit == 200

\* ------------------------------------------------------------ Go values
NilBytes   == [nil |-> TRUE,  bytes |-> <<>>]
EmptyBytes == [nil |-> FALSE, bytes |-> <<>>]
MkBytes(b) == [nil |-> FALSE, bytes |-> b]

NoErr      == <<>>
JobErr(j)  == <<"job", j>>
SaveErr    == <<"save", 0>>

\* tea.Cmd values; a returned command is a sequence of these (tea.Batch)
CmdQuit             == [name |-> "tea.Quit", prompt |-> <<>>]
CmdClearScreen      == [name |-> "tea.ClearScreen", prompt |-> <<>>]
CmdSpinnerTick      == [name |-> "spinner.Tick", prompt |-> <<>>]
CmdBlink            == [name |-> "textinput.Blink", prompt |-> <<>>]
generateImage(p)    == [name |-> "generateImage", prompt |-> p]

\* side effects performed inside Update, in call order
EffClearAll         == [op |-> "termimg.ClearAll", data |-> NilBytes, prompt |-> <<>>, ok |-> TRUE]
saveImage(d, p, ok) == [op |-> "saveImage", data |-> d, prompt |-> p, ok |-> ok]

\* tea.Msg values
BlankMsg == [kind |-> "none", key |-> "", w |-> 0, h |-> 0, x |-> 0, y |-> 0,
             button |-> "", job |-> 0, bytes |-> <<>>]
WindowSizeMsg(w, h)   == [BlankMsg EXCEPT !.kind = "WindowSizeMsg", !.w = w, !.h = h]
KeyMsg(k)             == [BlankMsg EXCEPT !.kind = "KeyMsg", !.key = k]
MouseClickMsg(b, x, y) == [BlankMsg EXCEPT !.kind = "MouseClickMsg", !.button = b, !.x = x, !.y = y]
BytesMsg(j, b)        == [BlankMsg EXCEPT !.kind = "bytes", !.job = j, !.bytes = b]
ErrorMsg(j)           == [BlankMsg EXCEPT !.kind = "error", !.job = j]
TickMsg               == [BlankMsg EXCEPT !.kind = "spinner.TickMsg"]
QuitMsg               == [BlankMsg EXCEPT !.kind = "tea.QuitMsg"]

Res(m, cmd, eff) == [m |-> m, cmd |-> cmd, eff |-> eff]

\* ------------------------------------------------------------- newModel
\* variant: the session always starts at the prompt entry
newInitialModel_AlwaysInput(c) ==
  [ width |-> 0, height |-> 0,
    prompt |-> c.Prompt,
    imageData |-> NilBytes,
    generating |-> FALSE,
    inputMode |-> TRUE,
    selectedBtn |-> 0,
    textInput |-> [value |-> <<>>, focus |-> TRUE],
    err |-> NoErr,
    imageRendered |-> FALSE,
    needsImageClear |-> FALSE,
    isRegenerating |-> FALSE ]

newInitialModel(c) ==
  [ width |-> 0, height |-> 0,
    prompt |-> c.Prompt,
    imageData |-> NilBytes,
    generating |-> c.Prompt # <<>>,
    inputMode |-> c.Prompt = <<>>,
    selectedBtn |-> 0,
    textInput |-> [value |-> <<>>, focus |-> TRUE],
    err |-> NoErr,
    imageRendered |-> FALSE,
    needsImageClear |-> FALSE,
    isRegenerating |-> FALSE ]

ModelInit(m) ==
  IF m.generating THEN <<generateImage(m.prompt), CmdSpinnerTick>>
                  ELSE <<CmdBlink, CmdSpinnerTick>>

\* textinput.Model.Update: a printable key is appended when focused and
\* below the character limit; every other message leaves the value alone.
textInputUpdate(ti, msg) ==
  IF ti.focus /\ msg.kind = "KeyMsg" /\ msg.key \in TypedKeys /\ Len(ti.value) < CharLimit
  THEN [ti EXCEPT !.value = Append(ti.value, msg.key)]
  ELSE ti

\* Update, after the switch: lines 370-382
UpdateTail(m, msg) ==
  LET m1 == IF m.inputMode
            THEN [m EXCEPT !.textInput = textInputUpdate(m.textInput, msg)]
            ELSE m
      spinnerCmd == IF msg.kind = "spinner.TickMsg" THEN <<CmdSpinnerTick>> ELSE <<>>
  IN  IF m1.generating THEN Res(m1, spinnerCmd, <<>>) ELSE Res(m1, <<>>, <<>>)

\* variant: width and height taken from the wrong fields of the message
UpdateWindowSize_Swapped(m, msg) ==
  UpdateTail([m EXCEPT !.width = msg.h, !.height = msg.w,
                       !.imageRendered = FALSE, !.needsImageClear = TRUE], msg)

UpdateWindowSize(m, msg) ==
  UpdateTail([m EXCEPT !.width = msg.w, !.height = msg.h,
                       !.imageRendered = FALSE, !.needsImageClear = TRUE], msg)

\* variant: the job is built from the prompt held before the assignment
KeySubmit_OldPrompt(m) ==
  LET m1 == [m EXCEPT !.prompt = m.textInput.value]
  IN  IF m1.prompt = <<>>
      THEN Res(m1, <<>>, <<>>)
      ELSE Res([m1 EXCEPT !.inputMode = FALSE, !.textInput.focus = FALSE,
                          !.generating = TRUE],
               <<generateImage(m.prompt), CmdSpinnerTick>>, <<>>)

\* variant: an empty prompt is submitted like any other
KeySubmit_AcceptsEmpty(m) ==
  LET m1 == [m EXCEPT !.prompt = m.textInput.value]
  IN  Res([m1 EXCEPT !.inputMode = FALSE, !.textInput.focus = FALSE,
                     !.generating = TRUE],
          <<generateImage(m1.prompt), CmdSpinnerTick>>, <<>>)

\* variant: the prompt entry stays open after the submission
KeySubmit_StaysInInput(m) ==
  LET m1 == [m EXCEPT !.prompt = m.textInput.value]
  IN  IF m1.prompt = <<>>
      THEN Res(m1, <<>>, <<>>)
      ELSE Res([m1 EXCEPT !.textInput.focus = FALSE, !.generating = TRUE],
               <<generateImage(m1.prompt), CmdSpinnerTick>>, <<>>)

KeySubmit(m) ==
  LET m1 == [m EXCEPT !.prompt = m.textInput.value]
  IN  IF m1.prompt = <<>>
      THEN Res(m1, <<>>, <<>>)
      ELSE Res([m1 EXCEPT !.inputMode = FALSE, !.textInput.focus = FALSE,
                          !.generating = TRUE],
               <<generateImage(m1.prompt), CmdSpinnerTick>>, <<>>)

\* variant: the cached image is kept until the new bytes arrive
KeyRegenerate_KeepsImage(m) ==
  Res([m EXCEPT !.needsImageClear = TRUE,
                !.isRegenerating = TRUE, !.generating = TRUE],
      <<CmdClearScreen, generateImage(m.prompt), CmdSpinnerTick>>,
      <<EffClearAll>>)

\* variant: the regeneration takes its prompt from the text input
KeyRegenerate_FromInput(m) ==
  Res([m EXCEPT !.prompt = m.textInput.value,
                !.imageData = EmptyBytes, !.needsImageClear = TRUE,
                !.isRegenerating = TRUE, !.generating = TRUE],
      <<CmdClearScreen, generateImage(m.textInput.value), CmdSpinnerTick>>,
      <<EffClearAll>>)

KeyRegenerate(m) ==
  Res([m EXCEPT !.imageData = EmptyBytes, !.needsImageClear = TRUE,
                !.isRegenerating = TRUE, !.generating = TRUE],
      <<CmdClearScreen, generateImage(m.prompt), CmdSpinnerTick>>,
      <<EffClearAll>>)

\* variant: the save error is dropped
KeyDownload_DropsError(m, saveOK) ==
  Res(m, <<CmdQuit>>, <<saveImage(m.imageData, m.prompt, saveOK)>>)

KeyDownload(m, saveOK) ==
  Res(IF saveOK THEN m ELSE [m EXCEPT !.err = SaveErr],
      <<CmdQuit>>,
      <<saveImage(m.imageData, m.prompt, saveOK)>>)

NavGuard(m) == ~m.inputMode /\ ~m.imageData.nil

\* variant: q is swallowed while the prompt is being typed
KeyQuit_IgnoredWhileTyping(m) ==
  IF m.inputMode THEN Res(m, <<>>, <<>>) ELSE Res(m, <<CmdQuit>>, <<>>)

KeyQuit(m) == Res(m, <<CmdQuit>>, <<>>)

UpdateKey(m, msg, saveOK) ==
  CASE msg.key \in {"ctrl+c", "q"} -> KeyQuit(m)
    [] msg.key = "enter" ->
         IF m.inputMode THEN KeySubmit(m)
         ELSE IF ~m.imageData.nil
              THEN IF m.selectedBtn = 0 THEN KeyRegenerate(m)
                                        ELSE KeyDownload(m, saveOK)
              ELSE UpdateTail(m, msg)
    [] msg.key \in {"left", "h"} ->
         UpdateTail(IF NavGuard(m) THEN [m EXCEPT !.selectedBtn = 0] ELSE m, msg)
    [] msg.key \in {"right", "l"} ->
         UpdateTail(IF NavGuard(m) THEN [m EXCEPT !.selectedBtn = 1] ELSE m, msg)
    [] msg.key \in {"tab", "j", "down", "k", "up"} ->
         UpdateTail(IF NavGuard(m) THEN [m EXCEPT !.selectedBtn = (m.selectedBtn + 1) % 2]
                                   ELSE m, msg)
    [] OTHER -> UpdateTail(m, msg)

\* variant: the cached image is kept while the click regenerates
ClickRegenerate_KeepsImage(m) ==
  Res([m EXCEPT !.selectedBtn = 0, !.needsImageClear = TRUE,
                !.isRegenerating = TRUE, !.generating = TRUE],
      <<CmdClearScreen, generateImage(m.prompt), CmdSpinnerTick>>,
      <<EffClearAll>>)

ClickRegenerate(m) ==
  Res([m EXCEPT !.selectedBtn = 0, !.imageData = EmptyBytes, !.needsImageClear = TRUE,
                !.isRegenerating = TRUE, !.generating = TRUE],
      <<CmdClearScreen, generateImage(m.prompt), CmdSpinnerTick>>,
      <<EffClearAll>>)

ClickDownload(m, saveOK) ==
  LET m1 == [m EXCEPT !.selectedBtn = 1]
  IN  Res(IF saveOK THEN m1 ELSE [m1 EXCEPT !.err = SaveErr],
          <<CmdQuit>>,
          <<saveImage(m1.imageData, m1.prompt, saveOK)>>)

\* variant: the right edge of the button container is left out
UpdateMouseClick_OpenRight(m, msg, saveOK) ==
  LET controlsPanelTop == m.height - controlsPanelHeight
      centerX          == m.width \div 2
      containerLeft    == centerX - containerWidth \div 2
      containerRight   == centerX + containerWidth \div 2
  IN  IF /\ ~m.inputMode /\ ~m.imageData.nil /\ msg.button = "left"
         /\ msg.y >= controlsPanelTop
         /\ msg.x >= containerLeft /\ msg.x < containerRight
      THEN IF msg.x < centerX THEN ClickRegenerate(m) ELSE ClickDownload(m, saveOK)
      ELSE UpdateTail(m, msg)

UpdateMouseClick(m, msg, saveOK) ==
  LET controlsPanelTop == m.height - controlsPanelHeight
      centerX          == m.width \div 2
      containerLeft    == centerX - containerWidth \div 2
      containerRight   == centerX + containerWidth \div 2
  IN  IF /\ ~m.inputMode /\ ~m.imageData.nil /\ msg.button = "left"
         /\ msg.y >= controlsPanelTop
         /\ msg.x >= containerLeft /\ msg.x <= containerRight
      THEN IF msg.x < centerX THEN ClickRegenerate(m) ELSE ClickDownload(m, saveOK)
      ELSE UpdateTail(m, msg)

\* variant: the selection is not reset when image data arrives
UpdateBytes_KeepsSelection(m, msg) ==
  Res([m EXCEPT !.imageData = MkBytes(msg.bytes), !.generating = FALSE,
                !.needsImageClear = TRUE,
                !.textInput.focus = FALSE],
      <<>>, <<>>)

\* variant: an empty body is stored as a nil slice
UpdateBytes_NilWhenEmpty(m, msg) ==
  Res([m EXCEPT !.imageData = IF msg.bytes = <<>> THEN NilBytes ELSE MkBytes(msg.bytes),
                !.generating = FALSE,
                !.needsImageClear = TRUE, !.selectedBtn = 0,
                !.textInput.focus = FALSE],
      <<>>, <<>>)

\* variant: fresh image data clears a stored error
UpdateBytes_ClearsError(m, msg) ==
  Res([m EXCEPT !.imageData = MkBytes(msg.bytes), !.generating = FALSE,
                !.needsImageClear = TRUE, !.selectedBtn = 0,
                !.textInput.focus = FALSE, !.err = NoErr],
      <<>>, <<>>)

UpdateBytes(m, msg) ==
  Res([m EXCEPT !.imageData = MkBytes(msg.bytes), !.generating = FALSE,
                !.needsImageClear = TRUE, !.selectedBtn = 0,
                !.textInput.focus = FALSE],
      <<>>, <<>>)

\* variant: the loading state is not left on error
UpdateError_StaysGenerating(m, msg) ==
  Res([m EXCEPT !.err = JobErr(msg.job)], <<>>, <<>>)

\* variant: an error that arrives while an image is held is only recorded
UpdateError_KeepsGeneratingWithImage(m, msg) ==
  Res([m EXCEPT !.err = JobErr(msg.job),
                !.generating = IF m.imageData.nil THEN FALSE ELSE m.generating],
      <<>>, <<>>)

UpdateError(m, msg) ==
  Res([m EXCEPT !.err = JobErr(msg.job), !.generating = FALSE], <<>>, <<>>)

Update(m, msg, saveOK) ==
  CASE msg.kind = "WindowSizeMsg" -> UpdateWindowSize(m, msg)
    [] msg.kind = "KeyMsg"        -> UpdateKey(m, msg, saveOK)
    [] msg.kind = "MouseClickMsg" -> UpdateMouseClick(m, msg, saveOK)
    [] msg.kind = "bytes"         -> UpdateBytes(m, msg)
    [] msg.kind = "error"         -> UpdateError(m, msg)
    [] OTHER                      -> UpdateTail(m, msg)

\* ------------------------------------------------------- image scaling
Abs(x) == IF x < 0 THEN -x ELSE x

\* Go integer division truncates toward zero
GoDiv(a, b) == IF (a < 0) = (b < 0) THEN Abs(a) \div Abs(b) ELSE -(Abs(a) \div Abs(b))

\* math.Ceil(float64(px) / float64(f)) for px >= 0, f > 0
CeilDiv(px, f) == (px + f - 1) \div f

RECURSIVE Pow2(_)
Pow2(k) == IF k = 0 THEN 1 ELSE 2 * Pow2(k - 1)

RECURSIVE Pow2Mod(_, _)
Pow2Mod(k, n) == IF k = 0 THEN 1 % n ELSE (2 * Pow2Mod(k - 1, n)) % n

\* floor(log2(b / c)) for b, c > 0
RECURSIVE Log2Up(_, _, _)
Log2Up(b, c, k) == IF 2 * c * Pow2(k) <= b THEN Log2Up(b, c, k + 1) ELSE k

RECURSIVE Log2Down(_, _, _)
Log2Down(b, c, k) == IF b * Pow2(k) < c THEN Log2Down(b, c, k + 1) ELSE k

FloorLog2(b, c) == IF b >= c THEN Log2Up(b, c, 0) ELSE -Log2Down(b, c, 1)

\* float64 arithmetic of `float64(a) * (float64(b) / float64(c))` for
\* a, b, c > 0 with c dividing a*b: TRUE when the product lands below the
\* integer a*b/c.  The quotient b/c is rounded to a 53-bit mantissa (round
\* to nearest, ties to even); r/c is the fraction cut off.  When the
\* quotient was rounded down, the product is a*r/c mantissa units below the
\* integer n, and it is rounded back to n only if that is at most half the
\* spacing of the float64 values below n.
Float64RoundsBelow(a, b, c) ==
  LET e  == FloorLog2(b, c)
      r  == (b * Pow2Mod(52 - e, c)) % c
      m0 == ((b * Pow2Mod(52 - e, 2 * c)) % (2 * c)) \div c
      n  == (a * b) \div c
      E  == FloorLog2(n, 1)
      d  == IF n = Pow2(E) THEN E - e - 2 ELSE E - e - 1
      lhs == IF d >= 0 THEN a * r ELSE a * r * Pow2(-d)
      rhs == IF d >= 0 THEN c * Pow2(d) ELSE c
  IN  /\ r # 0
      /\ 2 * r <= c
      /\ (2 * r = c) => (m0 % 2 = 0)
      /\ lhs > rhs

\* int(float64(a) * ratio) with ratio = float64(b) / float64(c), a, c > 0
ScaleTrunc(a, b, c) ==
  LET bb    == Abs(b)
      exact == (a * bb) \div c
      mag   == IF (a * bb) % c = 0 /\ Float64RoundsBelow(a, bb, c) THEN exact - 1 ELSE exact
  IN  IF b = 0 THEN 0 ELSE IF b < 0 THEN -mag ELSE mag

\* lines 666-673: downscale, preserving the aspect ratio, only when the
\* native size exceeds the available area; ratio = math.Min(wRatio, hRatio)
ScaleToFit(origW, origH, maxW, maxH) ==
  IF origW > maxW \/ origH > maxH
  THEN IF maxW * origH <= maxH * origW
       THEN <<ScaleTrunc(origW, maxW, origW), ScaleTrunc(origH, maxW, origW)>>
       ELSE <<ScaleTrunc(origW, maxH, origH), ScaleTrunc(origH, maxH, origH)>>
  ELSE <<origW, origH>>

\* --------------------------------------------------------------- View
controlsHeight == 8
titleHeight == 1
imagePadding == 4

\* pixel bounds of a decoded image and the font cell size reported by
\* termimg.QueryTerminalFeatures
ImagePx(d) == <<512, 512>>
FontSize   == <<8, 16>>

\* termimg.From: an empty buffer never decodes
Decodes(d) == Len(d.bytes) > 0

Frame(view, panel) ==
  [view |-> view, panel |-> panel, clear |-> FALSE, message |-> "",
   targetW |-> 0, targetH |-> 0, imageX |-> 0, imageY |-> 0, out |-> <<>>]

NoFrame == Frame("none", "none")

\* lines 463-467
loadingView(m) ==
  [Frame("loadingView", "loading") EXCEPT
     !.message = IF m.imageData.nil /\ m.prompt # <<>>
                 THEN "Regenerating image..."
                 ELSE "Generating your image..."]

\* variant: the clear is skipped unless a regeneration asked for it
mustClear_OnlyRegenerated(m) == m.needsImageClear /\ m.isRegenerating

\* line 686
mustClear(m) == m.needsImageClear

\* variant: the terminal is cleared after the image was placed
imageOut_ClearLate(clear) ==
  <<"termimg.From", "img.Render", "cursorHome", "titleBar", "saveCursor",
    "moveToImage", "imageCmd", "restoreCursor">>
  \o (IF clear THEN <<"termimg.ClearAll">> ELSE <<>>)
  \o <<"controls">>

\* lines 643-714 of an image frame: the collaborator calls made and the
\* pieces written to the returned string, in order
imageOut(clear) ==
  <<"termimg.From", "img.Render">>
  \o (IF clear THEN <<"termimg.ClearAll">> ELSE <<>>)
  \o <<"cursorHome", "titleBar", "saveCursor", "moveToImage",
       "imageCmd", "restoreCursor", "controls">>

\* variant: the terminal images are cleared before the diagnostic is shown
renderErrorMessage_Clears(calls, target) ==
  [Frame("viewImageWithControls", "imageError") EXCEPT
     !.clear = TRUE,
     !.targetW = target[1], !.targetH = target[2],
     !.out = calls \o <<"termimg.ClearAll", "renderErrorMessage">>]

\* lines 644-646, 679-681 and 1059-1095: the frame returned when
\* termimg.From or img.Render failed, after the calls made so far
renderErrorMessage(calls, target) ==
  [Frame("viewImageWithControls", "imageError") EXCEPT
     !.targetW = target[1], !.targetH = target[2],
     !.out = calls \o <<"renderErrorMessage">>]

\* The method has a pointer receiver: the result holds the frame and the
\* receiver after the call.  out lists, in call order, the collaborator
\* calls made and the pieces written to the returned string.
viewImageWithControls(m, encOK) ==
  IF m.imageData.nil
  THEN [frame |-> Frame("viewImageWithControls", "empty"), m |-> m]
  ELSE IF ~Decodes(m.imageData)
  THEN [frame |-> renderErrorMessage(<<"termimg.From">>, <<0, 0>>), m |-> m]
  ELSE LET availableHeight == m.height - controlsHeight - titleHeight - 2
           maxW   == m.width - imagePadding
           maxH   == availableHeight
           origW  == CeilDiv(ImagePx(m.imageData)[1], FontSize[1])
           origH  == CeilDiv(ImagePx(m.imageData)[2], FontSize[2])
           target == ScaleToFit(origW, origH, maxW, maxH)
       IN  IF ~encOK
           THEN [frame |-> renderErrorMessage(<<"termimg.From", "img.Render">>, target),
                 m |-> m]
           ELSE [frame |-> [Frame("viewImageWithControls", "image") EXCEPT
                              !.clear = mustClear(m),
                              !.targetW = target[1], !.targetH = target[2],
                              !.imageY = titleHeight + 3,
                              !.imageX = GoDiv(m.width - target[1], 2) + 1,
                              !.out = imageOut(mustClear(m))],
                 m |-> [m EXCEPT !.needsImageClear = FALSE]]

\* View has a value receiver: what viewImageWithControls writes to its
\* receiver is written to View's copy and dropped with it.
View(m, encOK) ==
  IF m.width = 0 THEN Frame("initializing", "initializing")
  ELSE IF m.err # NoErr THEN Frame("errorView", "error")
  ELSE IF m.inputMode THEN Frame("inputView", "input")
  ELSE IF m.generating THEN loadingView(m)
  ELSE IF ~m.imageData.nil THEN viewImageWithControls(m, encOK).frame
  ELSE Frame("controlsOnlyView", "controls")

\* variant: View declared with a pointer receiver
ViewReceiver_Pointer(m, encOK) ==
  IF m.width # 0 /\ m.err = NoErr /\ ~m.inputMode /\ ~m.generating /\ ~m.imageData.nil
  THEN viewImageWithControls(m, encOK).m
  ELSE m

\* line 385, func (m newModel) View(): the model the program holds after
\* the call; the callee worked on a copy
ViewReceiver(m, encOK) == m

\* ------------------------------------------------------------- state
VARIABLES m,          \* the newModel value held by the bubbletea program
          jobs,       \* jobs[j]: state ("idle", "running", "done") and prompt of the j-th generateImage command
          dispatched, \* number of generateImage commands started so far
          ticking,    \* a spinner.Tick command is pending
          phase,      \* "running", "quitting" (tea.Quit returned) or "exited"
          frame,      \* what the latest View drew
          since,      \* what happened since the last image frame was drawn
          fit,        \* one evaluation of the image scaling (FitSpec only)
          drv,        \* one run of a generateImage command (JobSpec only)
          bar         \* one title bar of an image frame (TitleSpec only)

vars == <<m, jobs, dispatched, ticking, phase, frame, since, fit, drv, bar>>

JobIds == 1..MaxJobs

NoChange == [resized |-> FALSE, imageChanged |-> FALSE]
NoFit    == [origW |-> 0, origH |-> 0, width |-> 0, height |-> 0,
             target |-> <<0, 0>>, done |-> FALSE]

NoMsg    == [kind |-> "none", what |-> ""]
NoOutput == [kind |-> "null", elems |-> <<>>]
NoBar == [width |-> 0, promptLen |-> 0, padding |-> 0, rest |-> 0, pc |-> "none"]

\* the zero value of Input (src/cmd/types.go)
ZeroInput ==
  [Seed |-> 0, Steps |-> 0, Prompt |-> <<>>, Guidance |-> 0, Interval |-> 0,
   NumOutputs |-> 0, AspectRatio |-> "", OutputFormat |-> "", OutputQuality |-> 0,
   PromptStrength |-> 0, NumInferenceSteps |-> 0, DisableSafetyChecker |-> FALSE,
   SafetyTolerance |-> 0]

NoReq == [url |-> "", auth |-> "", keys |-> {}, input |-> ZeroInput]
NoDrv == [pc |-> "none", c |-> [ApiToken |-> "", FluxModel |-> "", AspectRatio |-> "",
                                OutputFormat |-> ""],
          env |-> "", prompt |-> <<>>, req |-> NoReq,
          calls |-> <<>>, status |-> "", output |-> NoOutput, reason |-> "",
          msg |-> NoMsg]

\* what a returned batch asks the program to run
JobCmds(cmd) == SelectSeq(cmd, LAMBDA c : c.name = "generateImage")
NumJobs(cmd) == Len(JobCmds(cmd))
HasCmd(cmd, name) == \E i \in DOMAIN cmd : cmd[i].name = name

IdleJob == [st |-> "idle", prompt |-> <<>>]

\* the program starts the commands returned by Update; done is the set of
\* jobs whose completion message this turn consumed
Start(cmd, done) ==
  /\ dispatched + NumJobs(cmd) <= MaxJobs
  /\ dispatched' = dispatched + NumJobs(cmd)
  /\ jobs' = [j \in JobIds |->
                IF j \in done THEN [jobs[j] EXCEPT !.st = "done"]
                ELSE IF j > dispatched /\ j <= dispatched + NumJobs(cmd)
                     THEN [st |-> "running", prompt |-> JobCmds(cmd)[j - dispatched].prompt]
                ELSE jobs[j]]
  /\ phase' = IF HasCmd(cmd, "tea.Quit") THEN "quitting" ELSE phase

Init ==
  \E p \in ConfigPrompts :
     LET m0 == newInitialModel([Prompt |-> p])
         c0 == ModelInit(m0)
     IN  /\ m = m0
         /\ dispatched = NumJobs(c0)
         /\ jobs = [j \in JobIds |->
                      IF j <= NumJobs(c0)
                      THEN [st |-> "running", prompt |-> JobCmds(c0)[j].prompt]
                      ELSE IdleJob]
         /\ ticking = HasCmd(c0, "spinner.Tick")
         /\ phase = "running"
         /\ frame = NoFrame
         /\ since = NoChange
         /\ fit = NoFit
         /\ drv = NoDrv
         /\ bar = NoBar

\* one turn of the event loop: Update(msg), then start the returned command
Step(msg, saveOK, done) ==
  LET r == Update(m, msg, saveOK)
  IN  /\ r.m.textInput.value \in Texts
      /\ m' = r.m
      /\ Start(r.cmd, done)
      /\ ticking' = IF msg.kind = "spinner.TickMsg"
                    THEN HasCmd(r.cmd, "spinner.Tick")
                    ELSE ticking \/ HasCmd(r.cmd, "spinner.Tick")
      /\ since' = [resized |-> since.resized \/ msg.kind = "WindowSizeMsg",
                   imageChanged |-> \/ since.imageChanged
                                    \/ msg.kind = "bytes"
                                    \/ \E i \in DOMAIN r.eff : r.eff[i].op = "termimg.ClearAll"]
      /\ UNCHANGED <<frame, fit, drv, bar>>

Resize ==
  /\ phase # "exited"
  /\ \E s \in Sizes : Step(WindowSizeMsg(s[1], s[2]), TRUE, {})

Key ==
  /\ phase # "exited"
  /\ \E k \in Keys, saveOK \in BOOLEAN : Step(KeyMsg(k), saveOK, {})

MouseClick ==
  /\ phase # "exited"
  /\ \E b \in Buttons, x \in XCoords, y \in YCoords, saveOK \in BOOLEAN :
        Step(MouseClickMsg(b, x, y), saveOK, {})

\* the pending spinner tick fires
Tick ==
  /\ phase # "exited"
  /\ ticking
  /\ Step(TickMsg, TRUE, {})

\* the bodies a fetch of job j's output can return (possibly an empty body)
JobOutputs(j) == {<<j>>, <<>>}

\* a running job returns image bytes and the loop handles the message
JobSucceeds ==
  /\ phase # "exited"
  /\ \E j \in JobIds :
        /\ jobs[j].st = "running"
        /\ \E b \in JobOutputs(j) : Step(BytesMsg(j, b), TRUE, {j})

\* a running job returns an error and the loop handles the message
JobFails ==
  /\ phase # "exited"
  /\ \E j \in JobIds :
        /\ jobs[j].st = "running"
        /\ Step(ErrorMsg(j), TRUE, {j})

\* the renderer calls View on a copy of the model (value receiver)
Draw ==
  /\ phase # "exited"
  /\ \E encOK \in BOOLEAN : /\ frame' = View(m, encOK)
                             /\ m' = ViewReceiver(m, encOK)
  /\ since' = IF frame'.panel = "image" THEN NoChange ELSE since
  /\ UNCHANGED <<jobs, dispatched, ticking, phase, fit, drv, bar>>

\* the event loop receives the tea.QuitMsg and returns
Terminate ==
  /\ phase = "quitting"
  /\ phase' = "exited"
  /\ UNCHANGED <<m, jobs, dispatched, ticking, frame, since, fit, drv, bar>>

Next ==
  \/ Resize
  \/ Key
  \/ MouseClick
  \/ Tick
  \/ JobSucceeds
  \/ JobFails
  \/ Draw
  \/ Terminate

Spec == Init /\ [][Next]_vars

\* ------------------------------------------------------------- FitSpec
\* The scaling of viewImageWithControls (lines 648-673) applied to every
\* native size and window size of the bounds.
FitInit ==
  /\ m = newInitialModel([Prompt |-> <<>>])
  /\ dispatched = 0
  /\ jobs = [j \in JobIds |-> IdleJob]
  /\ ticking = FALSE
  /\ phase = "running"
  /\ frame = NoFrame
  /\ since = NoChange
  /\ drv = NoDrv
  /\ bar = NoBar
  /\ \E ow \in 1..MaxCells, oh \in 1..MaxCells, w \in FitWidths, h \in FitHeights :
        fit = [origW |-> ow, origH |-> oh, width |-> w, height |-> h,
               target |-> <<0, 0>>, done |-> FALSE]

FitMaxW == fit.width - imagePadding
FitMaxH == fit.height - controlsHeight - titleHeight - 2

FitStep ==
  /\ ~fit.done
  /\ fit' = [fit EXCEPT !.target = ScaleToFit(fit.origW, fit.origH, FitMaxW, FitMaxH),
                        !.done = TRUE]
  /\ UNCHANGED <<m, jobs, dispatched, ticking, phase, frame, since, drv, bar>>

FitNext == FitStep

FitSpec == FitInit /\ [][FitNext]_vars


\* ------------------------------------------------------------- JobSpec
\* one run of the closure returned by generateImage(prompt, c), step by
\* step, against a remote that may answer anything
Tokens       == {"", "tok"}
EnvKeys      == {"", "envkey"}
FluxModels   == {"schnell", "pro", "dev", "turbo"}
AspectRatios == {"1:1", "16:9"}
OutputFormats == {"png", "webp"}
JobPrompts   == {<<"a">>, <<"h", "a">>}

fluxSchnellURL == "https://api.replicate.com/v1/models/black-forest-labs/flux-schnell/predictions"
fluxProURL     == "https://api.replicate.com/v1/models/black-forest-labs/flux-1.1-pro-ultra/predictions"
fluxDevURL     == "https://api.replicate.com/v1/models/black-forest-labs/flux-dev/predictions"

\* the json tag of every field of Input; all of them carry omitempty
JsonKey ==
  [Seed |-> "seed", Steps |-> "steps", Prompt |-> "prompt", Guidance |-> "guidance",
   Interval |-> "interval", NumOutputs |-> "num_outputs", AspectRatio |-> "aspect_ratio",
   OutputFormat |-> "output_format", OutputQuality |-> "output_quality",
   PromptStrength |-> "prompt_strength", NumInferenceSteps |-> "num_inference_steps",
   DisableSafetyChecker |-> "disable_safety_checker", SafetyTolerance |-> "safety_tolerance"]

\* json.Marshal of an Input: the keys written are those of the fields that
\* differ from their zero value
MarshalKeys(input) == {JsonKey[f] : f \in {g \in DOMAIN input : input[g] # ZeroInput[g]}}

\* variant: the environment value wins over the configured token
apiKeyOf_EnvFirst(c, env) == IF env # "" THEN env ELSE c.ApiToken

\* lines 1118-1123
apiKeyOf(c, env) == IF c.ApiToken # "" THEN c.ApiToken ELSE env

\* variant: the safety checker is disabled for every model
buildInput_AlwaysUnchecked(prompt, c) ==
  LET input == [ZeroInput EXCEPT !.Prompt = prompt, !.AspectRatio = c.AspectRatio,
                                 !.OutputFormat = c.OutputFormat, !.OutputQuality = 100,
                                 !.DisableSafetyChecker = TRUE]
  IN  CASE c.FluxModel = "schnell" -> input
        [] c.FluxModel = "pro"     -> [input EXCEPT !.SafetyTolerance = 5]
        [] OTHER                   -> input

\* lines 1128-1147: the Input built for a model
buildInput(prompt, c) ==
  LET input == [ZeroInput EXCEPT !.Prompt = prompt, !.AspectRatio = c.AspectRatio,
                                 !.OutputFormat = c.OutputFormat, !.OutputQuality = 100]
  IN  CASE c.FluxModel = "schnell" -> [input EXCEPT !.DisableSafetyChecker = TRUE]
        [] c.FluxModel = "pro"     -> [input EXCEPT !.SafetyTolerance = 5]
        [] OTHER                   -> input

\* lines 1135-1147: the endpoint of a model, "" for the default case
fluxURL(model) ==
  CASE model = "schnell" -> fluxSchnellURL
    [] model = "pro"     -> fluxProURL
    [] model = "dev"     -> fluxDevURL
    [] OTHER             -> ""

\* what the remote can put in the output field of a response
Url(u)     == [str |-> TRUE, v |-> u]
NotAUrl    == [str |-> FALSE, v |-> "7"]
OutString  == [kind |-> "string", elems |-> <<Url("u1")>>]
OutList(e) == [kind |-> "list", elems |-> e]
OutNumber  == [kind |-> "number", elems |-> <<NotAUrl>>]
Outputs    == {OutString, OutList(<<Url("u1"), Url("u2")>>), OutList(<<>>),
               OutList(<<NotAUrl, Url("u2")>>), OutNumber, NoOutput}

\* the responses of the prediction endpoint
Responses ==
  {[status |-> st, output |-> NoOutput, reason |-> ""] : st \in {"starting", "processing", "canceled"}}
  \cup {[status |-> "failed", output |-> NoOutput, reason |-> "nsfw"]}
  \cup {[status |-> "succeeded", output |-> o, reason |-> ""] : o \in Outputs}

ErrMsg(what)  == [kind |-> "error", what |-> what]
DataMsg(what) == [kind |-> "bytes", what |-> what]

\* the closure returns msg
Return(msg) == [drv EXCEPT !.pc = "done", !.msg = msg]

JobInit ==
  /\ m = newInitialModel([Prompt |-> <<>>])
  /\ dispatched = 0
  /\ jobs = [j \in JobIds |-> IdleJob]
  /\ ticking = FALSE
  /\ phase = "running"
  /\ frame = NoFrame
  /\ since = NoChange
  /\ fit = NoFit
  /\ bar = NoBar
  /\ \E t \in Tokens, e \in EnvKeys, fm \in FluxModels, ar \in AspectRatios,
        of \in OutputFormats, p \in JobPrompts :
        drv = [NoDrv EXCEPT !.pc = "start", !.env = e, !.prompt = p,
                            !.c = [ApiToken |-> t, FluxModel |-> fm, AspectRatio |-> ar,
                                   OutputFormat |-> of]]

UIUnchanged == UNCHANGED <<m, jobs, dispatched, ticking, phase, frame, since, fit, bar>>

\* lines 1118-1159: credential, input, endpoint and request
JobPrepare ==
  /\ drv.pc = "start"
  /\ LET apiKey == apiKeyOf(drv.c, drv.env)
         input  == buildInput(drv.prompt, drv.c)
     IN  drv' = IF apiKey = "" THEN Return(ErrMsg("replicate API token not provided"))
                ELSE IF fluxURL(drv.c.FluxModel) = "" THEN Return(ErrMsg("invalid flux model"))
                ELSE [drv EXCEPT !.pc = "submit",
                                 !.req = [url |-> fluxURL(drv.c.FluxModel), auth |-> apiKey,
                                          keys |-> MarshalKeys(input), input |-> input]]
  /\ UIUnchanged

\* lines 1161-1176: the POST; sending, reading or parsing may fail
JobSubmit ==
  /\ drv.pc = "submit"
  /\ \/ drv' = [Return(ErrMsg("transport")) EXCEPT !.calls = Append(drv.calls, "submit")]
     \/ \E r \in Responses :
           drv' = [drv EXCEPT !.pc = "loop", !.calls = Append(drv.calls, "submit"),
                              !.status = r.status, !.output = r.output, !.reason = r.reason]
  /\ UIUnchanged

\* variant: a canceled prediction ends the loop
loopContinues_StopsOnCanceled(status) == status \notin {"succeeded", "failed", "canceled"}

\* line 1180
loopContinues(status) == status # "succeeded" /\ status # "failed"

Polls == Len(SelectSeq(drv.calls, LAMBDA c : c = "poll"))

\* lines 1180-1208: one turn of the polling loop
JobPoll ==
  /\ drv.pc = "loop"
  /\ loopContinues(drv.status)
  /\ Polls < MaxPolls
  /\ \/ drv' = [Return(ErrMsg("transport")) EXCEPT !.calls = Append(drv.calls, "poll")]
     \/ \E r \in Responses :
           drv' = [drv EXCEPT !.calls = Append(drv.calls, "poll"),
                              !.status = r.status, !.output = r.output, !.reason = r.reason]
  /\ UIUnchanged

\* lines 1210-1223: after the loop; urls[0].(string) panics on an empty list
\* and on a first element that is not a string
JobResolve ==
  /\ drv.pc = "loop"
  /\ ~loopContinues(drv.status)
  /\ drv' = IF drv.status = "failed"
            THEN Return(ErrMsg("image generation failed: " \o drv.reason))
            ELSE IF drv.output.kind = "string" THEN [drv EXCEPT !.pc = "fetch"]
            ELSE IF drv.output.kind = "list"
                 THEN IF Len(drv.output.elems) > 0 /\ drv.output.elems[1].str
                      THEN [drv EXCEPT !.pc = "fetch"]
                      ELSE [drv EXCEPT !.pc = "panic"]
            ELSE Return(ErrMsg("unexpected output type"))
  /\ UIUnchanged

\* lines 1225-1236: the GET of the output URL
JobFetch ==
  /\ drv.pc = "fetch"
  /\ \/ drv' = [Return(ErrMsg("transport")) EXCEPT
                  !.calls = Append(drv.calls, "fetch:" \o drv.output.elems[1].v)]
     \/ drv' = [Return(DataMsg("body of " \o drv.output.elems[1].v)) EXCEPT
                  !.calls = Append(drv.calls, "fetch:" \o drv.output.elems[1].v)]
  /\ UIUnchanged

JobNext ==
  \/ JobPrepare
  \/ JobSubmit
  \/ JobPoll
  \/ JobResolve
  \/ JobFetch

JobSpec == JobInit /\ [][JobNext]_vars

\* ----------------------------------------------------------- TitleSpec
\* the title bar of one image frame, for a window width and a prompt length
TitleWidths == 1..16
PromptLens  == 1..12

\* len("✨ "): three bytes of U+2728 and a space
titlePrefixLen == 4

\* lines 698-700
titlePadding(width, promptLen) ==
  LET padding == GoDiv(width - (titlePrefixLen + promptLen), 2)
  IN  IF padding < 0 THEN 0 ELSE padding

\* line 703: the count of the second strings.Repeat
titleRest(width, promptLen) ==
  width - titlePadding(width, promptLen) - (titlePrefixLen + promptLen)

TitleInit ==
  /\ m = newInitialModel([Prompt |-> <<>>])
  /\ dispatched = 0
  /\ jobs = [j \in JobIds |-> IdleJob]
  /\ ticking = FALSE
  /\ phase = "running"
  /\ frame = NoFrame
  /\ since = NoChange
  /\ fit = NoFit
  /\ drv = NoDrv
  /\ \E w \in TitleWidths, n \in PromptLens :
        bar = [NoBar EXCEPT !.width = w, !.promptLen = n, !.pc = "start"]

\* lines 695-704; strings.Repeat panics on a negative count
TitleStep ==
  /\ bar.pc = "start"
  /\ LET padding == titlePadding(bar.width, bar.promptLen)
         rest    == titleRest(bar.width, bar.promptLen)
     IN  bar' = [bar EXCEPT !.padding = padding, !.rest = rest,
                            !.pc = IF padding < 0 \/ rest < 0 THEN "panic" ELSE "done"]
  /\ UNCHANGED <<m, jobs, dispatched, ticking, phase, frame, since, fit, drv>>

TitleNext == TitleStep

TitleSpec == TitleInit /\ [][TitleNext]_vars

\* ------------------------------------------------------------ LiveSpec
\* the session and the job run, each on its own, with the scheduling the
\* program relies on: a dispatched job delivers its completion message and
\* the event loop handles it
LiveInit == Init \/ JobInit

LiveNext ==
  \/ drv = NoDrv /\ Next
  \/ JobNext

LiveSpec == LiveInit /\ [][LiveNext]_vars /\ WF_vars(JobSucceeds \/ JobFails)

TypeOK ==
  /\ m.selectedBtn \in {0, 1}
  /\ m.generating \in BOOLEAN
  /\ m.inputMode \in BOOLEAN
  /\ dispatched \in 0..MaxJobs
  /\ phase \in {"running", "quitting", "exited"}

\* ------------------------------------------------------------ modes
AwaitingPrompt == m.inputMode
Generating     == m.generating
Failed         == m.err # NoErr
ImageHeld      == ~m.imageData.nil
HasImageBytes  == Len(m.imageData.bytes) > 0
Displaying     == ~AwaitingPrompt /\ ~Generating /\ ~Failed /\ ImageHeld

\* the turn that handles the completion message of job j
Completes(j) == jobs[j].st = "running" /\ jobs'[j].st = "done"

\* job j was superseded: a later generateImage command has been started
Stale(j) == j < dispatched

\* C1: a completion message (bytes or error) of a job that is not the most
\* recently dispatched one leaves imageData, generating, inputMode, err and
\* selectedBtn as they were before the message.
C1_StaleCompletionDiscarded ==
  [][\A j \in JobIds :
       (Completes(j) /\ Stale(j)) =>
          /\ m'.imageData = m.imageData
          /\ m'.generating = m.generating
          /\ m'.inputMode = m.inputMode
          /\ m'.err = m.err
          /\ m'.selectedBtn = m.selectedBtn]_vars

\* C2: the bytes of a superseded job are never stored in imageData: whenever
\* imageData holds the bytes of a job, that job is the most recently
\* dispatched one.
C2_SupersededBytesNeverStored ==
  \A j \in JobIds : m.imageData.bytes = <<j>> => j = dispatched

\* C3: exactly one of AwaitingPrompt, Generating/Regenerating, Failed and
\* Displaying holds in every reachable state; err is never set while
\* generating, and inputMode is never true while generating.
C3_ModeMutualExclusion ==
  /\ Cardinality({i \in 1..4 : <<AwaitingPrompt, Generating, Failed, Displaying>>[i]}) = 1
  /\ ~(Failed /\ Generating)
  /\ ~(AwaitingPrompt /\ Generating)

\* C4: imageData is non-empty only in Displaying or Regenerating: never
\* while AwaitingPrompt and never while err is set.
C4_ImageOnlyWhenDisplayingOrRegenerating ==
  HasImageBytes => (~AwaitingPrompt /\ ~Failed)

\* C5: a bytes completion processed while generating stores exactly those
\* bytes, clears generating, resets selectedBtn to 0, sets needsImageClear,
\* leaves err unchanged and dispatches no job.
C5_JobSuccessTransition ==
  [][\A j \in JobIds : \A b \in JobOutputs(j) :
       (m.generating /\ jobs[j].st = "running" /\ Step(BytesMsg(j, b), TRUE, {j})) =>
          /\ m'.imageData = MkBytes(b)
          /\ m'.generating = FALSE
          /\ m'.selectedBtn = 0
          /\ m'.needsImageClear = TRUE
          /\ m'.err = m.err
          /\ dispatched' = dispatched]_vars

\* a regeneration's job has delivered its bytes and they are held
C5_Witness ==
  /\ dispatched = 2 /\ jobs[1].st = "done" /\ jobs[2].st = "done"
  /\ m.imageData = MkBytes(<<2>>) /\ ~m.generating /\ m.err = NoErr

\* C6: an error completion processed while generating sets err to that
\* error, clears generating and finds imageData empty; the process does not
\* quit and no job is dispatched.
C6_JobFailureTransition ==
  [][\A j \in JobIds :
       (m.generating /\ jobs[j].st = "running" /\ Step(ErrorMsg(j), TRUE, {j})) =>
          /\ m'.err = JobErr(j)
          /\ m'.generating = FALSE
          /\ Len(m'.imageData.bytes) = 0
          /\ phase' = phase
          /\ dispatched' = dispatched]_vars

\* a regeneration's job has failed
C6_Witness ==
  /\ dispatched = 2 /\ jobs[2].st = "done"
  /\ m.err = JobErr(2) /\ ~m.generating /\ m.imageData = EmptyBytes

\* C7: enter with selectedBtn = 0 in Displaying empties imageData in the
\* same step, sets needsImageClear and generating, leaves prompt unchanged
\* and dispatches exactly one job carrying that prompt.
C7_RegenerateTransition ==
  [][\A saveOK \in BOOLEAN :
       (Displaying /\ m.selectedBtn = 0 /\ Step(KeyMsg("enter"), saveOK, {})) =>
          /\ Len(m'.imageData.bytes) = 0
          /\ m'.needsImageClear = TRUE
          /\ m'.generating = TRUE
          /\ m'.prompt = m.prompt
          /\ dispatched' = dispatched + 1
          /\ jobs'[dispatched'] = [st |-> "running", prompt |-> m.prompt]
          /\ \A j \in JobIds \ {dispatched'} : jobs'[j] = jobs[j]]_vars

\* a regeneration is in flight after the first image was displayed
C7_Witness ==
  /\ dispatched = 2 /\ jobs[1].st = "done" /\ jobs[2].st = "running"
  /\ m.generating /\ m.imageData = EmptyBytes /\ m.isRegenerating /\ m.err = NoErr

\* C8: enter in AwaitingPrompt with non-empty text leaves inputMode, sets
\* generating, sets prompt to the entered text, has err empty and dispatches
\* exactly one job with that prompt.
C8_SubmitTransition ==
  [][\A saveOK \in BOOLEAN :
       (AwaitingPrompt /\ m.textInput.value # <<>> /\ Step(KeyMsg("enter"), saveOK, {})) =>
          /\ m'.inputMode = FALSE
          /\ m'.generating = TRUE
          /\ m'.prompt = m.textInput.value
          /\ m'.err = NoErr
          /\ dispatched' = dispatched + 1
          /\ jobs'[dispatched'] = [st |-> "running", prompt |-> m.textInput.value]
          /\ \A j \in JobIds \ {dispatched'} : jobs'[j] = jobs[j]]_vars

\* the typed prompt "ha" was submitted and its job is running
C8_Witness ==
  /\ m.prompt = <<"h", "a">> /\ m.textInput.value = <<"h", "a">>
  /\ ~m.inputMode /\ m.generating
  /\ dispatched = 1 /\ jobs[1] = [st |-> "running", prompt |-> <<"h", "a">>]

\* C9: enter with selectedBtn = 1 in Displaying calls saveImage exactly once
\* with the current imageData and prompt and returns tea.Quit; imageData,
\* generating, inputMode and prompt are unchanged, no job is dispatched, and
\* err is set (to the save error) exactly when the save failed.
C9_DownloadTransition ==
  [][\A saveOK \in BOOLEAN :
       (Displaying /\ m.selectedBtn = 1 /\ Step(KeyMsg("enter"), saveOK, {})) =>
          /\ Update(m, KeyMsg("enter"), saveOK).eff = <<saveImage(m.imageData, m.prompt, saveOK)>>
          /\ Update(m, KeyMsg("enter"), saveOK).cmd = <<CmdQuit>>
          /\ phase' = "quitting"
          /\ m'.imageData = m.imageData
          /\ m'.generating = m.generating
          /\ m'.inputMode = m.inputMode
          /\ m'.prompt = m.prompt
          /\ dispatched' = dispatched
          /\ (m'.err # NoErr) <=> ~saveOK
          /\ ~saveOK => m'.err = SaveErr]_vars

\* a download of the displayed image failed and the program is quitting
C9_Witness ==
  /\ phase = "quitting" /\ m.err = SaveErr /\ m.selectedBtn = 1
  /\ HasImageBytes /\ ~m.generating /\ ~m.inputMode

\* C10: a resize sets width and height to the event's values, changes none
\* of inputMode, generating, prompt, imageData, selectedBtn, err and
\* dispatches no job; no other event changes width or height.
C10_ResizeFrame ==
  [][ /\ \A s \in Sizes :
            Step(WindowSizeMsg(s[1], s[2]), TRUE, {}) =>
               /\ m'.width = s[1] /\ m'.height = s[2]
               /\ m'.inputMode = m.inputMode
               /\ m'.generating = m.generating
               /\ m'.prompt = m.prompt
               /\ m'.imageData = m.imageData
               /\ m'.selectedBtn = m.selectedBtn
               /\ m'.err = m.err
               /\ dispatched' = dispatched /\ jobs' = jobs
      /\ (m'.width # m.width \/ m'.height # m.height) =>
            \E s \in Sizes : Step(WindowSizeMsg(s[1], s[2]), TRUE, {}) ]_vars

\* the window was resized a second time while an image is displayed
C10_Witness ==
  /\ m.width = 30 /\ m.height = 10 /\ HasImageBytes /\ m.needsImageClear
  /\ frame.panel = "image"

\* ------------------------------------------------------------ frames
\* the frames View can return in the current state
Frames == {View(m, encOK) : encOK \in BOOLEAN}

\* positions of a piece in the output of a frame
Pos(f, piece) == {i \in DOMAIN f.out : f.out[i] = piece}

\* C11: after a resize, the next image frame drawn clears all terminal
\* images before it places the image, also when the image is the one the
\* previous frame drew.
C11_ResizeForcesClear ==
  \A f \in Frames :
     (since.resized /\ f.panel = "image") =>
        /\ f.clear
        /\ \E i \in Pos(f, "termimg.ClearAll") : \A k \in Pos(f, "imageCmd") : i < k

\* an image frame was drawn, then the window was resized with the same image
C11_Witness ==
  /\ frame.panel = "image" /\ since.resized /\ ~since.imageChanged
  /\ View(m, TRUE).panel = "image"

\* C12: an image frame clears the terminal images if and only if the image
\* changed identity or the window was resized since the last image frame
\* drawn; a second image frame with neither in between issues no clear.
C12_ClearIffChanged ==
  \A f \in Frames :
     f.panel = "image" => (f.clear <=> (since.resized \/ since.imageChanged))

NavKeys == {"left", "h", "right", "l", "tab", "up", "k", "down", "j"}

\* the session fields of a model value
Session(mm) == <<mm.width, mm.height, mm.prompt, mm.imageData, mm.generating,
                 mm.inputMode, mm.selectedBtn, mm.err>>

\* C13: a navigation key changes selectedBtn only when the session is not
\* AwaitingPrompt and holds a non-empty image; in every other state it
\* leaves selectedBtn and the other session fields unchanged.
C13_NavigationOnlyWithImage ==
  [][\A k \in NavKeys :
       (Step(KeyMsg(k), TRUE, {}) /\ ~(~m.inputMode /\ HasImageBytes)) =>
          Session(m') = Session(m)]_vars

Activations == {KeyMsg("enter")} \cup {MouseClickMsg("left", x, y) : x \in XCoords, y \in YCoords}

Saves(eff) == {i \in DOMAIN eff : eff[i].op = "saveImage"}

\* C14: outside AwaitingPrompt an activation dispatches a job or calls
\* saveImage only when a non-empty image is held and generating is false.
C14_ActivationOnlyWhenDisplaying ==
  [][\A msg \in Activations : \A saveOK \in BOOLEAN :
       (/\ ~m.inputMode
        /\ Step(msg, saveOK, {})
        /\ (dispatched' # dispatched \/ Saves(Update(m, msg, saveOK).eff) # {})) =>
          (HasImageBytes /\ ~m.generating)]_vars

\* C15: in every state ctrl+c and q return tea.Quit with the model
\* unchanged, no job dispatched and nothing saved.
C15_QuitFromAnyState ==
  \A k \in {"ctrl+c", "q"} : \A saveOK \in BOOLEAN :
     Update(m, KeyMsg(k), saveOK) = Res(m, <<CmdQuit>>, <<>>)

\* the program is quitting from AwaitingPrompt with text typed
C15_Witness ==
  /\ phase = "quitting" /\ m.inputMode /\ m.textInput.value = <<"h", "a">>
  /\ dispatched = 0

\* C16: View picks its panel by priority: width = 0, then err, then
\* inputMode, then generating, then an image held; the controls-only
\* fallback is chosen in no reachable state.
C16_PanelSelection ==
  \A f \in Frames :
     /\ f.view = IF m.width = 0 THEN "initializing"
                 ELSE IF Failed THEN "errorView"
                 ELSE IF AwaitingPrompt THEN "inputView"
                 ELSE IF Generating THEN "loadingView"
                 ELSE IF ImageHeld THEN "viewImageWithControls"
                 ELSE "controlsOnlyView"
     /\ f.view # "controlsOnlyView"

\* the image panel was drawn and the session has failed since
C16_Witness ==
  /\ frame.view = "viewImageWithControls" /\ View(m, TRUE).view = "errorView"
  /\ m.generating

\* C17: the loading panel shows "Generating your image..." for a generation
\* started by submission or by a pre-filled prompt and "Regenerating
\* image..." for one started by a regenerate activation.
C17_LoadingMessage ==
  \A f \in Frames :
     f.view = "loadingView" =>
        f.message = IF m.isRegenerating THEN "Regenerating image..."
                                        ELSE "Generating your image..."

\* what the claim compares of two frames
Plan(f) == <<f.panel, f.targetW, f.targetH, f.imageX, f.imageY, f.clear>>

\* the model values that agree with mm on width, height, the mode flags,
\* prompt, imageData, selectedBtn and needsImageClear
SameSession(mm) ==
  {[mm EXCEPT !.isRegenerating = r, !.imageRendered = d,
              !.textInput = [value |-> t, focus |-> fo]] :
     r \in BOOLEAN, d \in BOOLEAN, t \in Texts, fo \in BOOLEAN}

Max(a, b) == IF a >= b THEN a ELSE b

\* C19: a native size within the available area (width - 4, height - 11) is
\* kept; otherwise the target is (floor(origW*r), floor(origH*r)) with
\* r = min(maxW/origW, maxH/origH), lies within the available area and has
\* the native aspect ratio within one cell.
C19_AspectPreservingFit ==
  fit.done =>
     LET ow == fit.origW
         oh == fit.origH
         byW == FitMaxW * oh <= FitMaxH * ow
         num == IF byW THEN FitMaxW ELSE FitMaxH
         den == IF byW THEN ow ELSE oh
         tw == fit.target[1]
         th == fit.target[2]
     IN  IF ow <= FitMaxW /\ oh <= FitMaxH
         THEN fit.target = <<ow, oh>>
         ELSE /\ tw = (ow * num) \div den
              /\ th = (oh * num) \div den
              /\ tw <= FitMaxW /\ th <= FitMaxH
              /\ Abs(tw * oh - th * ow) <= Max(ow, oh)

\* C20: a frame with an image calls the encoder once and emits, in order,
\* the clear (when needsImageClear is set), save cursor, move to the image
\* cell, the image bytes, restore cursor and the controls; image bytes are
\* emitted only between save and restore, and never before a required clear.
C20_ImageFrameOrder ==
  \A f \in Frames :
     /\ Pos(f, "imageCmd") # {} =>
          /\ Cardinality(Pos(f, "img.Render")) = 1
          /\ Cardinality(Pos(f, "imageCmd")) = 1
          /\ \E s \in Pos(f, "saveCursor"), p \in Pos(f, "moveToImage"),
                i \in Pos(f, "imageCmd"), r \in Pos(f, "restoreCursor"),
                c \in Pos(f, "controls") :
                /\ s < p /\ p < i /\ i < r /\ r < c
                /\ \A x \in Pos(f, "termimg.ClearAll") : x < s
          /\ m.needsImageClear <=> Pos(f, "termimg.ClearAll") # {}
     /\ f.panel = "image" <=> Pos(f, "imageCmd") # {}

\* an image frame that cleared the terminal first was drawn
C20_Witness ==
  /\ frame.panel = "image" /\ frame.clear
  /\ Pos(frame, "termimg.ClearAll") # {} /\ Pos(frame, "imageCmd") # {}

\* ------------------------------------------------------------ jobs
NetworkCalls == drv.calls
Prepared     == drv.pc \notin {"none", "start"}
Ended        == drv.pc \in {"done", "panic"}

ValidModels == {"schnell", "pro", "dev"}

\* the keys every request carries
CommonKeys == {"prompt", "aspect_ratio", "output_format", "output_quality"}

\* C22: the submitted input carries exactly prompt, aspect_ratio,
\* output_format, output_quality = 100 and the default of the model
\* (schnell: disable_safety_checker = true; pro: safety_tolerance = 5; dev:
\* neither), each model has its own endpoint, and another model value
\* yields an error before any network call.
C22_RequestConstruction ==
  Prepared =>
     IF drv.c.FluxModel \in ValidModels
     THEN NetworkCalls # <<>> =>
            /\ drv.req.input.Prompt = drv.prompt
            /\ drv.req.input.AspectRatio = drv.c.AspectRatio
            /\ drv.req.input.OutputFormat = drv.c.OutputFormat
            /\ drv.req.input.OutputQuality = 100
            /\ drv.req.keys = CommonKeys \cup
                 (CASE drv.c.FluxModel = "schnell" -> {"disable_safety_checker"}
                    [] drv.c.FluxModel = "pro"     -> {"safety_tolerance"}
                    [] OTHER                       -> {})
            /\ drv.c.FluxModel = "schnell" => drv.req.input.DisableSafetyChecker
            /\ drv.c.FluxModel = "pro" => drv.req.input.SafetyTolerance = 5
            /\ drv.req.url = (CASE drv.c.FluxModel = "schnell" -> fluxSchnellURL
                                [] drv.c.FluxModel = "pro"     -> fluxProURL
                                [] OTHER                       -> fluxDevURL)
            /\ Cardinality({fluxSchnellURL, fluxProURL, fluxDevURL}) = 3
     ELSE drv.pc = "done" /\ drv.msg.kind = "error" /\ NetworkCalls = <<>>

\* a request for the pro model was submitted
C22_Witness ==
  /\ drv.c.FluxModel = "pro" /\ drv.pc = "loop" /\ NetworkCalls = <<"submit">>
  /\ "safety_tolerance" \in drv.req.keys

IsFetch(call) == call \notin {"submit", "poll"}
Count(calls, P(_)) == Len(SelectSeq(calls, P))
Terminal == {"succeeded", "failed"}

\* the URL the job has to fetch: the string, or the first of the list
FirstUrl(output) == output.elems[1].v

\* C23: a job submits exactly once, polls only while the last status is
\* neither succeeded nor failed, fetches once and only after succeeded (the
\* single URL or the first of the list), fetches nothing after failed and
\* then yields an error with the remote reason, ends with an error on a
\* transport error, and yields exactly one completion message.
C23_JobProtocolOrder ==
  [][LET made == Len(drv'.calls) = Len(drv.calls) + 1
         new  == drv'.calls[Len(drv'.calls)]
     IN  /\ drv.msg.kind = "none"
         /\ made => /\ new = "submit" <=> drv.calls = <<>>
                    /\ new = "poll" => drv.status \notin Terminal
                    /\ IsFetch(new) => /\ drv.status = "succeeded"
                                       /\ Count(drv.calls, IsFetch) = 0
                                       /\ new = "fetch:" \o FirstUrl(drv.output)
         /\ drv.status = "failed" =>
               /\ ~(made /\ IsFetch(new))
               /\ drv'.msg = ErrMsg("image generation failed: " \o drv.reason)
         /\ drv'.msg = ErrMsg("transport") => made /\ drv'.pc = "done"
         /\ drv'.pc \in {"done", "panic"} =>
               /\ drv'.msg.kind # "none"
               /\ drv'.calls # <<>> => Count(drv'.calls, LAMBDA c : c = "submit") = 1
    ]_vars

Malformed(output) ==
  \/ output.kind \notin {"string", "list"}
  \/ output.kind = "list" /\ (output.elems = <<>> \/ ~output.elems[1].str)

\* C24: after status succeeded the job always ends by yielding a message,
\* and yields an error when the output is an empty list, a list whose first
\* element is not a string, or a value of another type.
C24_EveryFailureYieldsValue ==
  (drv.status = "succeeded" /\ drv.pc \notin {"loop", "fetch"}) =>
     /\ drv.pc = "done" /\ drv.msg.kind # "none"
     /\ Malformed(drv.output) => drv.msg.kind = "error"

\* --------------------------------------------------------- sessions
\* C25: once err is set no event clears it, every frame drawn afterwards
\* with width > 0 is the error panel, and ctrl+c and q still quit.
C25_FailedIsTerminal ==
  [][/\ m.err # NoErr => m'.err # NoErr
     /\ m'.err # NoErr =>
          /\ \A encOK \in BOOLEAN : m'.width > 0 => View(m', encOK).view = "errorView"
          /\ (frame' # frame /\ m'.width > 0) => frame'.view = "errorView"
          /\ \A k \in {"ctrl+c", "q"} : \A saveOK \in BOOLEAN :
                HasCmd(Update(m', KeyMsg(k), saveOK).cmd, "tea.Quit")
    ]_vars

\* after a failure a late image arrived, the error panel was drawn and the
\* process has quit
C25_Witness ==
  /\ m.err # NoErr /\ HasImageBytes /\ frame.view = "errorView"
  /\ phase = "exited"

\* what the claim states of the session created at startup
StartsAsConfigured ==
  /\ IF m.prompt = <<>>
     THEN m.inputMode /\ ~m.generating /\ dispatched = 0
     ELSE /\ ~m.inputMode /\ m.generating /\ m.prompt \in ConfigPrompts
          /\ dispatched = 1 /\ jobs[1] = [st |-> "running", prompt |-> m.prompt]
  /\ \A j \in JobIds : j > dispatched => jobs[j] = IdleJob
  /\ m.imageData = NilBytes /\ m.err = NoErr /\ m.selectedBtn = 0
  /\ m.width = 0 /\ m.height = 0

\* C26: the session starts AwaitingPrompt with no job dispatched iff the
\* configured prompt is empty, otherwise Generating with the configured
\* prompt and exactly one job dispatched by Init; in both cases imageData
\* is empty, err unset, selectedBtn 0 and width = height = 0.
C26_InitialState == StartsAsConfigured /\ [][TRUE]_vars

\* the session started from a pre-filled prompt and its job is running
C26_Witness ==
  /\ StartsAsConfigured /\ m.prompt = <<"a">> /\ frame = NoFrame
  /\ m.textInput.value = <<>>

\* the jobs started by the step
NewJobs == {j \in JobIds : j > dispatched /\ j <= dispatched'}

\* C27: once inputMode is false it stays false, prompt never changes again
\* and every job dispatched afterwards carries that prompt.
C27_PromptImmutable ==
  [][~m.inputMode =>
        /\ ~m'.inputMode
        /\ m'.prompt = m.prompt
        /\ \A j \in NewJobs : jobs'[j].prompt = m.prompt
    ]_vars

\* a prompt was typed and submitted and a regeneration was dispatched later
C27_Witness ==
  /\ ~m.inputMode /\ m.prompt = <<"h", "a">> /\ m.textInput.value = <<"h", "a">>
  /\ dispatched = 3 /\ \A j \in JobIds : j <= 3 => jobs[j].prompt = <<"h", "a">>

\* the job returned although the remote never reported succeeded or failed
\* and no call failed
GaveUp ==
  /\ drv.msg.kind # "none"
  /\ drv.calls # <<>>
  /\ drv.status \notin Terminal
  /\ drv.msg # ErrMsg("transport")

\* C28: when every dispatched job delivers its completion message and the
\* event loop handles it, generating = true leads to generating = false or
\* to the end of the process; a job whose remote never reports succeeded or
\* failed does not return on its own.
C28_GenerationResolves ==
  /\ m.generating ~> (~m.generating \/ phase = "exited")
  /\ [](~GaveUp)

\* a regeneration was resolved by the error of its job
C28_Witness ==
  /\ ~m.generating /\ m.isRegenerating /\ m.err # NoErr
  /\ dispatched = 2 /\ jobs[2].st = "done"

\* C29: in Displaying, when the held bytes do not decode or the encoder
\* fails, the frame is the diagnostic panel with no clear-all call and no
\* image bytes, the process does not terminate, and err, generating,
\* imageData and selectedBtn are unchanged.
C29_DecodeFailureDegrades ==
  /\ [](\A encOK \in BOOLEAN :
          (Displaying /\ m.width # 0 /\ (~Decodes(m.imageData) \/ ~encOK)) =>
             LET f == View(m, encOK)
             IN  /\ f.panel = "imageError"
                 /\ ~f.clear
                 /\ Pos(f, "termimg.ClearAll") = {} /\ Pos(f, "imageCmd") = {}
                 /\ Pos(f, "renderErrorMessage") # {}
                 /\ ViewReceiver(m, encOK) = m)
  /\ [][(frame' # frame /\ frame'.panel = "imageError") =>
           /\ phase' = phase
           /\ <<m'.err, m'.generating, m'.imageData, m'.selectedBtn>>
                = <<m.err, m.generating, m.imageData, m.selectedBtn>>]_vars

\* the diagnostic panel was drawn for an image whose encoding failed and
\* the program went on to handle a key
C29_Witness ==
  /\ frame.panel = "imageError" /\ Pos(frame, "img.Render") # {}
  /\ Displaying /\ HasImageBytes /\ m.selectedBtn = 1 /\ phase = "running"

\* C30: enter in AwaitingPrompt with an empty text input dispatches no job
\* and leaves inputMode true, generating false, imageData empty and err
\* unset.
C30_EmptySubmitRejected ==
  (m.inputMode /\ m.textInput.value = <<>>) =>
     \A saveOK \in BOOLEAN :
        LET r == Update(m, KeyMsg("enter"), saveOK)
        IN  /\ NumJobs(r.cmd) = 0
            /\ Saves(r.eff) = {}
            /\ r.m.inputMode /\ ~r.m.generating
            /\ r.m.imageData = NilBytes /\ r.m.err = NoErr

\* the prompt panel is shown and nothing has been typed or dispatched
C30_Witness ==
  /\ m.inputMode /\ m.textInput.value = <<>> /\ frame.view = "inputView"
  /\ dispatched = 0 /\ m.width # 0

\* ------------------------------------------------------- activations
\* the key and mouse events other than the quit keys
UserEvents ==
  {KeyMsg(k) : k \in Keys \ {"ctrl+c", "q"}}
  \cup {MouseClickMsg(b, x, y) : b \in Buttons, x \in XCoords, y \in YCoords}

\* C31: while err is set, no key or mouse event other than quit dispatches a
\* job, calls saveImage, or changes generating, imageData or selectedBtn.
C31_NoActivityInFailed ==
  [][\A msg \in UserEvents : \A saveOK \in BOOLEAN :
       (m.err # NoErr /\ Step(msg, saveOK, {})) =>
          /\ dispatched' = dispatched
          /\ Saves(Update(m, msg, saveOK).eff) = {}
          /\ <<m'.generating, m'.imageData, m'.selectedBtn>>
               = <<m.generating, m.imageData, m.selectedBtn>>]_vars

\* the clicks at and around the edges of the button container of the
\* current window, with every button
EdgeClicks ==
  LET c == m.width \div 2
  IN  {MouseClickMsg(b, x, y) :
         b \in Buttons,
         x \in {c - 21, c - 20, c - 1, c, c + 20, c + 21},
         y \in {m.height - 9, m.height - 8, m.height - 1}}

\* C32: a left click with Y >= height - 8 and X in [width/2 - 20,
\* width/2 + 20], outside AwaitingPrompt and with an image held, gives the
\* state and commands of the keyboard activation of regenerate (X < width/2)
\* or download (X >= width/2) with selectedBtn set accordingly; every other
\* click changes no session field, dispatches nothing and saves nothing.
C32_MouseMatchesKeyboard ==
  \A msg \in EdgeClicks : \A saveOK \in BOOLEAN :
     LET c      == m.width \div 2
         r      == Update(m, msg, saveOK)
         inRect == msg.y >= m.height - 8 /\ msg.x >= c - 20 /\ msg.x <= c + 20
         btn    == IF msg.x < c THEN 0 ELSE 1
     IN  IF msg.button = "left" /\ inRect /\ ~AwaitingPrompt /\ ImageHeld
         THEN r = Update([m EXCEPT !.selectedBtn = btn], KeyMsg("enter"), saveOK)
         ELSE /\ Session(r.m) = Session(m)
              /\ NumJobs(r.cmd) = 0
              /\ Saves(r.eff) = {}

\* an image is displayed in the 50x24 window with the download button
\* selected, after a regeneration: clicks on both buttons act here
C32_Witness ==
  /\ Displaying /\ HasImageBytes /\ m.width = 50 /\ m.height = 24
  /\ m.isRegenerating /\ dispatched = 2 /\ phase = "running"
  /\ frame.panel = "image"

\* the bytes delivered by the jobs that have completed
DeliveredBytes == {<<j>> : j \in {i \in JobIds : jobs[i].st = "done"}}

\* C33: every call of saveImage receives a non-empty buffer equal to the
\* bytes of a successfully completed job, whatever the event sequence.
C33_SaveNeverEmpty ==
  \A msg \in UserEvents : \A saveOK \in BOOLEAN :
     LET eff == Update(m, msg, saveOK).eff
     IN  \A i \in Saves(eff) :
            /\ Len(eff[i].data.bytes) > 0
            /\ eff[i].data.bytes \in DeliveredBytes

\* ---------------------------------------------------------- geometry
\* C34: for every prompt and every window width > 0 both padding counts of
\* the title bar, padding and width - padding - len(titleText), are
\* non-negative, so building the title bar does not fail.
C34_TitleBarNeverAborts ==
  bar.pc \notin {"none", "start"} =>
     /\ bar.padding >= 0
     /\ bar.rest >= 0
     /\ bar.pc = "done"

\* C35: for width > 0, height > 0 and a native size of at least 1x1 cell the
\* target satisfies 1 <= targetW <= width - 4 and 1 <= targetH <=
\* height - 11, and the image column (width - targetW)/2 + 1 is >= 1.
C35_TargetSizeBounds ==
  (fit.done /\ fit.width > 0 /\ fit.height > 0 /\ fit.origW >= 1 /\ fit.origH >= 1) =>
     /\ 1 <= fit.target[1] /\ fit.target[1] <= fit.width - 4
     /\ 1 <= fit.target[2] /\ fit.target[2] <= fit.height - 11
     /\ GoDiv(fit.width - fit.target[1], 2) + 1 >= 1

\* ---------------------------------------------------- more invariants
\* C36: if generating is true, the most recently dispatched job has not yet
\* delivered its completion message.
C36_NoStuckLoading ==
  m.generating => (dispatched >= 1 /\ jobs[dispatched].st = "running")

\* a regeneration is in flight after the first job has delivered
C36_Witness ==
  /\ m.generating /\ dispatched = 2
  /\ jobs[1].st = "done" /\ jobs[2].st = "running"

\* C37: if imageData is non-empty then generating is false; every step that
\* sets generating to true empties imageData in the same step.
C37_ImageImpliesNotGenerating ==
  /\ [](HasImageBytes => ~m.generating)
  /\ [][(~m.generating /\ m'.generating) => ~(Len(m'.imageData.bytes) > 0)]_vars

\* a regeneration started from a displayed image and emptied the buffer
C37_Witness ==
  /\ m.generating /\ m.isRegenerating /\ m.imageData = EmptyBytes
  /\ jobs[1].st = "done" /\ frame.panel = "image"

\* C38: with inputMode true no job has ever been dispatched, generating is
\* false, imageData is empty and err is unset, so no completion message can
\* be handled in AwaitingPrompt.
C38_AwaitingPromptQuiescent ==
  m.inputMode =>
     /\ dispatched = 0
     /\ \A j \in JobIds : jobs[j] = IdleJob
     /\ ~m.generating /\ m.imageData = NilBytes /\ m.err = NoErr

\* text is being typed at the prompt and nothing was dispatched
C38_Witness ==
  /\ m.inputMode /\ m.textInput.value = <<"h", "a">> /\ dispatched = 0
  /\ frame.view = "inputView"

====
